---- MODULE Spec2Model ----
(***************************************************************************)
(* State-machine model of the SageMaker TrainingJob reconciler             *)
(* (controllers/trainingjob/trainingjob_controller.go).                    *)
(*                                                                         *)
(* One Reconcile action is one whole reconciliation pass: the Get, the     *)
(* DescribeTrainingJob call, the branch taken, the remote mutation and the *)
(* datastore write it makes, and the ctrl.Result it returns.  The          *)
(* Kubernetes datastore object is `job`, the SageMaker side is `sm`, the   *)
(* dispatcher's work queue is `queued`, and `pass` records what the last   *)
(* pass did.                                                               *)
(***************************************************************************)
EXTENDS Integers, Sequences, FiniteSets, TLC

VARIABLES job, sm, queued, pass, edits, inflight

vars == <<job, sm, queued, pass, edits, inflight>>

(***************************************************************************)
(* Bounds of the model.                                                    *)
(***************************************************************************)
\* How many times the user edits the job parameters of the spec.
MaxEdits == 1

(***************************************************************************)
(* Program constants.                                                      *)
(***************************************************************************)
\* TrainingJobReconciler.PollInterval (a time.Duration, in seconds here).
PollInterval == 5

\* The maximum length handed to GetGeneratedJobName by getTrainingJobName.
MaxNameLen == 63

\* controllers.SageMakerResourceFinalizerName
SageMakerResourceFinalizerName == "sagemaker-operator-finalizer"

\* controllers.InitializingJobStatus
\* The finalizer the datastore itself adds to an object deleted in the foreground.
ForegroundDeletionFinalizer == "foregroundDeletion"

InitializingJobStatus == "SynchronizingK8sJobWithSageMaker"

\* sagemaker.TrainingJobStatus* of the SDK.
TrainingJobStatusInProgress == "InProgress"
TrainingJobStatusStopping == "Stopping"
TrainingJobStatusStopped == "Stopped"
TrainingJobStatusFailed == "Failed"
TrainingJobStatusCompleted == "Completed"

\* A primary status the SDK enumeration does not know (the default branches).
UnknownRemoteStatus == "Interrupted"

TerminalStatuses ==
    {TrainingJobStatusStopped, TrainingJobStatusFailed, TrainingJobStatusCompleted}

\* const outputPath of the Completed case.
outputPath == "/output/model.tar.gz"

(***************************************************************************)
(* The object as the user submits it.                                      *)
(***************************************************************************)
ObjectName == "xgboost-mnist-training-job-for-the-weekly-retraining-pipeline"
ObjectUID == "a1b2-c3d4"
UserJobName == "job-123"
Region == "us-west-2"
S3OutputPath == "s3://bucket/prefix"
SubmittedParams == "ml.m4.xlarge"
ParamValues == {SubmittedParams, "ml.p3.2xlarge"}

(***************************************************************************)
(* Errors of the remote API: an error value is nil, an awserr.RequestFailure*)
(* (Code, Message, StatusCode) or another error (requestFailure = FALSE).  *)
(***************************************************************************)
NoError ==
    [nil |-> TRUE, requestFailure |-> FALSE, Code |-> "", Message |-> "", StatusCode |-> 0]

RequestFailure(code, message, statusCode) ==
    [nil |-> FALSE, requestFailure |-> TRUE, Code |-> code, Message |-> message,
     StatusCode |-> statusCode]

NotFoundError == RequestFailure("ValidationException", "Requested resource not found.", 400)
ThrottlingError == RequestFailure("ThrottlingException", "Rate exceeded", 400)
ServerError == RequestFailure("InternalFailure", "We encountered an internal error.", 500)
ValidationError == RequestFailure("ValidationException", "Invalid resource config.", 400)
ResourceInUseError == RequestFailure("ResourceInUse", "Training job names must be unique.", 400)
\* An error that is no awserr.RequestFailure (a transport or serialization error).
TransportError ==
    [nil |-> FALSE, requestFailure |-> FALSE, Code |-> "RequestError",
     Message |-> "send request failed", StatusCode |-> 0]

\* Faults any remote call can answer with, whatever the state of the remote job.
FaultErrors ==
    {ThrottlingError, ServerError, ValidationError, TransportError}

\* awsErr.Error(): the raw error text.
ErrorText(e) == e.Code \o ": " \o e.Message


(***************************************************************************)
(* Helpers of the controllers package used by the reconciler.              *)
(***************************************************************************)
\* ctrl.Result plus the returned error (err = TRUE: a non-nil error).
Directive(requeue, requeueAfter, err) ==
    [Requeue |-> requeue, RequeueAfter |-> requeueAfter, err |-> err]

RequeueIfError(err) == Directive(FALSE, 0, err)

NoRequeue == RequeueIfError(FALSE)

RequeueImmediately == Directive(TRUE, 0, FALSE)

RequeueAfterInterval(interval, err) == Directive(FALSE, interval, err)

RequeueImmediatelyUnlessGenerationChanged(prevGeneration, curGeneration) ==
    IF prevGeneration = curGeneration THEN RequeueImmediately ELSE NoRequeue

ContainsString(strings, s) == \E i \in 1..Len(strings) : strings[i] = s

RemoveString(strings, s) == SelectSeq(strings, LAMBDA x : x # s)

GetOrDefault(value, default) == IF value = "" THEN default ELSE value

\* GetGeneratedJobName: the object's name, a dash and the UID; the name is cut
\* so that the whole fits maxNameLen and the UID is kept.
GetGeneratedJobName(uid, name, maxNameLen) ==
    LET requiredPostfix == "-" \o uid
        room == maxNameLen - Len(requiredPostfix)
    IN  IF Len(name) > room
        THEN SubSeq(name, 1, room) \o requiredPostfix
        ELSE name \o requiredPostfix

\* TrainingJobSpecMatchesDescription(description, spec).Equal
TrainingJobSpecMatchesDescription(description, spec) ==
    description.params = spec.params

\* CreateSpecDiffersFromDescriptionErrorMessage: the text of the differences.
CreateSpecDiffersFromDescriptionErrorMessage(state, status, description) ==
    "Spec differs from description: " \o state.Spec.params \o " != " \o description.params

(***************************************************************************)
(* The TrainingJobStatus sub-object.  A field a caller does not set has    *)
(* Go's zero value, the empty string.                                      *)
(***************************************************************************)
TrainingJobStatus(primary, secondary, name, additional, logUrl, modelPath) ==
    [TrainingJobStatus |-> primary, SecondaryStatus |-> secondary,
     SageMakerTrainingJobName |-> name, Additional |-> additional,
     CloudWatchLogUrl |-> logUrl, ModelPath |-> modelPath, LastCheckTime |-> "now"]

EmptyStatus ==
    [TrainingJobStatus |-> "", SecondaryStatus |-> "", SageMakerTrainingJobName |-> "",
     Additional |-> "", CloudWatchLogUrl |-> "", ModelPath |-> "", LastCheckTime |-> ""]

(***************************************************************************)
(* The datastore.  A write fails (ok = FALSE: a version conflict, the      *)
(* datastore unavailable) and then changes nothing.                        *)
(***************************************************************************)
\* r.Status().Update(ctx, root): only the status sub-object is stored.
StatusUpdate(stored, root, ok) ==
    IF ok THEN [stored EXCEPT !.Status = root.Status] ELSE stored

\* r.Update(ctx, &state): spec and metadata are stored, the status is not; a
\* spec change raises the generation; an object under deletion whose last
\* finalizer is gone is removed by the datastore.
Update(stored, state, ok) ==
    IF ok
    THEN [stored EXCEPT
            !.Spec = state.Spec,
            !.Finalizers = state.Finalizers,
            !.Generation = IF state.Spec # stored.Spec THEN @ + 1 ELSE @,
            !.exists = ~(stored.DeletionTimestamp /\ state.Finalizers = <<>>)]
    ELSE stored

(***************************************************************************)
(* What one pass did: the datastore and the remote side after it, the      *)
(* directive, and the calls it made.                                       *)
(***************************************************************************)
Return(j, s, directive) ==
    [job |-> j, sm |-> s, result |-> directive, panic |-> FALSE,
     create |-> FALSE, createErr |-> NoError, stop |-> FALSE, stopErr |-> NoError,
     statusWrite |-> FALSE, update |-> FALSE, writeFailed |-> FALSE,
     source |-> EmptyStatus]

\* A run-time panic (nil dereference): the pass returns no directive.
Panic(j, s) == [Return(j, s, NoRequeue) EXCEPT !.panic = TRUE]


(***************************************************************************)
(* The reconciler's own functions.                                         *)
(***************************************************************************)
\* A name generator that is handed twice the length the remote API accepts.
getTrainingJobName_TwiceTheLength(state) ==
    GetGeneratedJobName(state.UID, state.Name, MaxNameLen + MaxNameLen)

getTrainingJobName(state) == GetGeneratedJobName(state.UID, state.Name, MaxNameLen)

etcdMatchesSmApi(state, description) ==
    LET primary_status_matches ==
            state.Status.TrainingJobStatus = description.TrainingJobStatus
        secondary_status_matches ==
            state.Status.SecondaryStatus = description.SecondaryStatus
    IN  primary_status_matches /\ secondary_status_matches

isSageMaker404Response(awsError) ==
    awsError.Code = "ValidationException" /\ awsError.Message = "Requested resource not found."

\* Mutant: the throttling message is compared with a different wording.
isSageMaker429Response_WrongMessage(awsError) ==
    awsError.Code = "ThrottlingException" /\ awsError.Message = "Rate exceeded."

isSageMaker429Response(awsError) ==
    awsError.Code = "ThrottlingException" /\ awsError.Message = "Rate exceeded"

\* cwLogUrl of Reconcile.
CloudWatchLogUrl(state) ==
    "https://" \o state.Spec.Region \o ".console.aws.amazon.com/cloudwatch/home?region="
        \o state.Spec.Region \o "#logStream:group=/aws/sagemaker/TrainingJobs;prefix="
        \o state.Spec.TrainingJobName \o ";streamFilter=typeLogStreamPrefix"

\* A status update that merges: a field that source leaves empty keeps the
\* value of the previous status.
updateJobStatus_KeepsUnsetFields(trainingJob, source, ok) ==
    LET merged == [f \in DOMAIN source |->
                      IF source[f] = "" THEN trainingJob.Status[f] ELSE source[f]]
        root == [trainingJob EXCEPT !.Status = merged]
    IN  StatusUpdate(trainingJob, root, ok)

\* updateJobStatus: the status of a copy is replaced by source and written.
updateJobStatus(trainingJob, source, ok) ==
    LET root == [trainingJob EXCEPT !.Status = source]
    IN  StatusUpdate(trainingJob, root, ok)

\* A pass that ends with one updateJobStatus call and the given directive.
StatusWritten(state, s, source, ok, directive) ==
    [Return(updateJobStatus(state, source, ok), s, directive)
        EXCEPT !.statusWrite = TRUE, !.writeFailed = ~ok, !.source = source]

\* A pass that ends with one r.Update call of the changed in-memory state.
ObjectUpdated(stored, state, s, ok, directive) ==
    [Return(Update(stored, state, ok), s, directive)
        EXCEPT !.update = TRUE, !.writeFailed = ~ok]

handleSageMakerApiError(awsErr, state, s, cwLogUrl, ok) ==
    IF ~awsErr.requestFailure
    THEN Panic(state, s)      \* awsErr is a nil interface: awsErr.StatusCode() panics
    ELSE IF awsErr.StatusCode >= 500
    THEN Return(state, s, RequeueAfterInterval(PollInterval, TRUE))
    ELSE IF isSageMaker429Response(awsErr)
    THEN Return(state, s, RequeueAfterInterval(PollInterval, TRUE))
    ELSE StatusWritten(state, s,
            TrainingJobStatus(TrainingJobStatusFailed, "", state.Spec.TrainingJobName,
                              ErrorText(awsErr), cwLogUrl, ""),
            ok, RequeueIfError(~ok))

\* A removal stored through the status writer, which stores the status only.
removeFinalizer_ThroughStatusWriter(state, s, ok) ==
    LET changed == [state EXCEPT
                        !.Finalizers = RemoveString(@, SageMakerResourceFinalizerName)]
    IN  StatusWritten(changed, s, changed.Status, ok, RequeueIfError(~ok))

removeFinalizerAndUpdate(state, s, ok) ==
    LET changed == [state EXCEPT
                        !.Finalizers = RemoveString(@, SageMakerResourceFinalizerName)]
    IN  ObjectUpdated(state, changed, s, ok, RequeueIfError(~ok))

\* The remote side after a CreateTrainingJob call answered createErr.
AfterCreate(state, s, createErr) ==
    IF createErr.nil
    THEN [exists |-> TRUE, visible |-> FALSE,
          TrainingJobStatus |-> TrainingJobStatusInProgress,
          SecondaryStatus |-> "Starting", FailureReason |-> "",
          params |-> state.Spec.params]
    ELSE s

createSageMakerTrainingJob(state, s, cwUrl, createErr, ok) ==
    LET s2 == AfterCreate(state, s, createErr)
        done == IF createErr.nil
                THEN Return(state, s2, RequeueImmediately)
                ELSE handleSageMakerApiError(
                        IF createErr.requestFailure THEN createErr ELSE NoError,
                        state, s2, cwUrl, ok)
    IN  [done EXCEPT !.create = TRUE, !.createErr = createErr]

\* The remote side after a StopTrainingJob call answered stopErr.
AfterStop(s, stopErr) ==
    IF stopErr.nil
    THEN [s EXCEPT !.TrainingJobStatus = TrainingJobStatusStopping,
                   !.SecondaryStatus = TrainingJobStatusStopping]
    ELSE s

\* Mutant: a completed remote job is missing from the terminal case.
deleteTrainingJob_KeepsWhenCompleted(state, s, description, cwUrl, stopErr, ok) ==
    IF ~ContainsString(state.Finalizers, SageMakerResourceFinalizerName)
    THEN Return(state, s, NoRequeue)
    ELSE IF description.TrainingJobStatus = TrainingJobStatusInProgress
    THEN LET s2 == AfterStop(s, stopErr)
             done == IF stopErr.requestFailure
                     THEN handleSageMakerApiError(stopErr, state, s2, cwUrl, ok)
                     ELSE Return(state, s2, RequeueImmediately)
         IN  [done EXCEPT !.stop = TRUE, !.stopErr = stopErr]
    ELSE IF description.TrainingJobStatus = TrainingJobStatusStopping
    THEN StatusWritten(state, s,
            TrainingJobStatus(description.TrainingJobStatus, description.SecondaryStatus,
                              state.Spec.TrainingJobName, "", cwUrl, ""),
            ok, RequeueAfterInterval(PollInterval, FALSE))
    ELSE IF description.TrainingJobStatus \in
                {TrainingJobStatusFailed, TrainingJobStatusStopped}
    THEN removeFinalizerAndUpdate(state, s, ok)
    ELSE Return(state, s, NoRequeue)

\* Mutant: the stop call is also issued while the remote job is already stopping.
deleteTrainingJob_StopsWhileStopping(state, s, description, cwUrl, stopErr, ok) ==
    IF ~ContainsString(state.Finalizers, SageMakerResourceFinalizerName)
    THEN Return(state, s, NoRequeue)
    ELSE IF description.TrainingJobStatus \in
                {TrainingJobStatusInProgress, TrainingJobStatusStopping}
    THEN LET s2 == AfterStop(s, stopErr)
             done == IF stopErr.requestFailure
                     THEN handleSageMakerApiError(stopErr, state, s2, cwUrl, ok)
                     ELSE Return(state, s2, RequeueImmediately)
         IN  [done EXCEPT !.stop = TRUE, !.stopErr = stopErr]
    ELSE IF description.TrainingJobStatus \in
                {TrainingJobStatusFailed, TrainingJobStatusCompleted, TrainingJobStatusStopped}
    THEN removeFinalizerAndUpdate(state, s, ok)
    ELSE Return(state, s, NoRequeue)

\* Mutant: nothing is asked for while the remote job is stopping.
deleteTrainingJob_NoRequeueWhileStopping(state, s, description, cwUrl, stopErr, ok) ==
    IF ~ContainsString(state.Finalizers, SageMakerResourceFinalizerName)
    THEN Return(state, s, NoRequeue)
    ELSE IF description.TrainingJobStatus = TrainingJobStatusInProgress
    THEN LET s2 == AfterStop(s, stopErr)
             done == IF stopErr.requestFailure
                     THEN handleSageMakerApiError(stopErr, state, s2, cwUrl, ok)
                     ELSE Return(state, s2, RequeueImmediately)
         IN  [done EXCEPT !.stop = TRUE, !.stopErr = stopErr]
    ELSE IF description.TrainingJobStatus = TrainingJobStatusStopping
    THEN StatusWritten(state, s,
            TrainingJobStatus(description.TrainingJobStatus, description.SecondaryStatus,
                              state.Spec.TrainingJobName, "", cwUrl, ""),
            ok, NoRequeue)
    ELSE IF description.TrainingJobStatus \in
                {TrainingJobStatusFailed, TrainingJobStatusCompleted, TrainingJobStatusStopped}
    THEN removeFinalizerAndUpdate(state, s, ok)
    ELSE Return(state, s, NoRequeue)

\* Mutant: the finalizer is removed for every status but InProgress and Stopping.
deleteTrainingJob_RemovesOnUnknown(state, s, description, cwUrl, stopErr, ok) ==
    IF ~ContainsString(state.Finalizers, SageMakerResourceFinalizerName)
    THEN Return(state, s, NoRequeue)
    ELSE IF description.TrainingJobStatus = TrainingJobStatusInProgress
    THEN LET s2 == AfterStop(s, stopErr)
             done == IF stopErr.requestFailure
                     THEN handleSageMakerApiError(stopErr, state, s2, cwUrl, ok)
                     ELSE Return(state, s2, RequeueImmediately)
         IN  [done EXCEPT !.stop = TRUE, !.stopErr = stopErr]
    ELSE IF description.TrainingJobStatus = TrainingJobStatusStopping
    THEN StatusWritten(state, s,
            TrainingJobStatus(description.TrainingJobStatus, description.SecondaryStatus,
                              state.Spec.TrainingJobName, "", cwUrl, ""),
            ok, RequeueAfterInterval(PollInterval, FALSE))
    ELSE removeFinalizerAndUpdate(state, s, ok)

\* Mutant: the finalizer is also removed while the remote job is still stopping.
deleteTrainingJob_RemovesWhileStopping(state, s, description, cwUrl, stopErr, ok) ==
    IF ~ContainsString(state.Finalizers, SageMakerResourceFinalizerName)
    THEN Return(state, s, NoRequeue)
    ELSE IF description.TrainingJobStatus = TrainingJobStatusInProgress
    THEN LET s2 == AfterStop(s, stopErr)
             done == IF stopErr.requestFailure
                     THEN handleSageMakerApiError(stopErr, state, s2, cwUrl, ok)
                     ELSE Return(state, s2, RequeueImmediately)
         IN  [done EXCEPT !.stop = TRUE, !.stopErr = stopErr]
    ELSE IF description.TrainingJobStatus \in
                {TrainingJobStatusStopping, TrainingJobStatusFailed,
                 TrainingJobStatusCompleted, TrainingJobStatusStopped}
    THEN removeFinalizerAndUpdate(state, s, ok)
    ELSE Return(state, s, NoRequeue)

\* A deletion that decides on the stop call from the stored status instead of
\* the description.
deleteTrainingJob_StopsOnStoredStatus(state, s, description, cwUrl, stopErr, ok) ==
    IF ~ContainsString(state.Finalizers, SageMakerResourceFinalizerName)
    THEN Return(state, s, NoRequeue)
    ELSE IF state.Status.TrainingJobStatus = TrainingJobStatusInProgress
    THEN LET s2 == AfterStop(s, stopErr)
             done == IF stopErr.requestFailure
                     THEN handleSageMakerApiError(stopErr, state, s2, cwUrl, ok)
                     ELSE Return(state, s2, RequeueImmediately)
         IN  [done EXCEPT !.stop = TRUE, !.stopErr = stopErr]
    ELSE IF description.TrainingJobStatus = TrainingJobStatusStopping
    THEN StatusWritten(state, s,
            TrainingJobStatus(description.TrainingJobStatus, description.SecondaryStatus,
                              state.Spec.TrainingJobName, "", cwUrl, ""),
            ok, RequeueAfterInterval(PollInterval, FALSE))
    ELSE IF description.TrainingJobStatus \in
                {TrainingJobStatusFailed, TrainingJobStatusCompleted, TrainingJobStatusStopped}
    THEN removeFinalizerAndUpdate(state, s, ok)
    ELSE Return(state, s, NoRequeue)

deleteTrainingJobIfFinalizerExists(state, s, description, cwUrl, stopErr, ok) ==
    IF ~ContainsString(state.Finalizers, SageMakerResourceFinalizerName)
    THEN Return(state, s, NoRequeue)
    ELSE IF description.TrainingJobStatus = TrainingJobStatusInProgress
    THEN LET s2 == AfterStop(s, stopErr)
             done == IF stopErr.requestFailure
                     THEN handleSageMakerApiError(stopErr, state, s2, cwUrl, ok)
                     ELSE Return(state, s2, RequeueImmediately)
         IN  [done EXCEPT !.stop = TRUE, !.stopErr = stopErr]
    ELSE IF description.TrainingJobStatus = TrainingJobStatusStopping
    THEN StatusWritten(state, s,
            TrainingJobStatus(description.TrainingJobStatus, description.SecondaryStatus,
                              state.Spec.TrainingJobName, "", cwUrl, ""),
            ok, RequeueAfterInterval(PollInterval, FALSE))
    ELSE IF description.TrainingJobStatus \in
                {TrainingJobStatusFailed, TrainingJobStatusCompleted, TrainingJobStatusStopped}
    THEN removeFinalizerAndUpdate(state, s, ok)
    ELSE Return(state, s, NoRequeue)


(***************************************************************************)
(* The sections of Reconcile, in the order of the code.                    *)
(***************************************************************************)
\* Job status is empty: set the intermediate status.
InitializeStatus(state, s, ok) ==
    StatusWritten(state, s,
        TrainingJobStatus(InitializingJobStatus, "", "", "", "", ""),
        ok, IF ok THEN RequeueImmediately ELSE RequeueIfError(TRUE))

\* Generate the SageMaker training job name if the spec has none.
AssignGeneratedName(state, s, ok) ==
    LET changed == [state EXCEPT !.Spec.TrainingJobName = getTrainingJobName(state)]
    IN  ObjectUpdated(state, changed, s, ok,
                      IF ok THEN NoRequeue ELSE RequeueIfError(TRUE))

\* The object is under deletion and the describe call has answered.
DeletionBranch(state, s, descErr, description, cwLogUrl, stopErr, ok) ==
    IF descErr.nil
    THEN deleteTrainingJobIfFinalizerExists(state, s, description, cwLogUrl, stopErr, ok)
    ELSE IF isSageMaker404Response(descErr)
    THEN removeFinalizerAndUpdate(state, s, ok)
    ELSE handleSageMakerApiError(descErr, state, s, cwLogUrl, ok)

\* HANDLE CREATION: the describe call failed with a RequestFailure.
CreationBranch(state, s, awsErr, cwLogUrl, createErr, ok) ==
    IF isSageMaker404Response(awsErr)
    THEN createSageMakerTrainingJob(state, s, cwLogUrl, createErr, ok)
    ELSE handleSageMakerApiError(awsErr, state, s, cwLogUrl, ok)

\* Mutant: the error of the status write is dropped.
SpecDiffers_DropsWriteError(state, s, description, ok) ==
    StatusWritten(state, s,
        TrainingJobStatus(TrainingJobStatusFailed, "", state.Spec.TrainingJobName,
            CreateSpecDiffersFromDescriptionErrorMessage(state, TrainingJobStatusFailed,
                                                         description),
            "", ""),
        ok, NoRequeue)

\* VERIFY SPEC MATCHES DESCRIPTION: the spec differs.
SpecDiffers(state, s, description, ok) ==
    StatusWritten(state, s,
        TrainingJobStatus(TrainingJobStatusFailed, "", state.Spec.TrainingJobName,
            CreateSpecDiffersFromDescriptionErrorMessage(state, TrainingJobStatusFailed,
                                                         description),
            "", ""),
        ok, RequeueIfError(~ok))

\* The finalizer is stored and no pass is asked for.
AddFinalizer_NeverRequeues(state, s, ok) ==
    LET changed == [state EXCEPT
                        !.Finalizers = Append(@, SageMakerResourceFinalizerName)]
    IN  ObjectUpdated(state, changed, s, ok,
                      IF ~ok THEN RequeueIfError(TRUE) ELSE NoRequeue)

\* ADD FINALIZER IF NOT EXISTS: the finalizer is absent.
AddFinalizer(state, s, ok) ==
    LET changed == [state EXCEPT
                        !.Finalizers = Append(@, SageMakerResourceFinalizerName)]
        prevGeneration == state.Generation
        written == Update(state, changed, ok)
    IN  ObjectUpdated(state, changed, s, ok,
            IF ~ok THEN RequeueIfError(TRUE)
            ELSE RequeueImmediatelyUnlessGenerationChanged(prevGeneration,
                                                           written.Generation))

\* A status sync that leaves the job name out of the status it writes.
SyncStatus_WithoutJobName(state, s, description, cwLogUrl, ok) ==
    StatusWritten(state, s,
        TrainingJobStatus(description.TrainingJobStatus, description.SecondaryStatus,
                          "",
                          GetOrDefault(description.FailureReason, ""), cwLogUrl, ""),
        ok, RequeueAfterInterval(PollInterval, ~ok))

\* A status sync that leaves the failure reason of the description out.
SyncStatus_WithoutFailureReason(state, s, description, cwLogUrl, ok) ==
    StatusWritten(state, s,
        TrainingJobStatus(description.TrainingJobStatus, description.SecondaryStatus,
                          state.Spec.TrainingJobName, "", cwLogUrl, ""),
        ok, RequeueAfterInterval(PollInterval, ~ok))

\* UPDATE ETCD TO MATCH SM API STATE: the status differs from the description.
SyncStatus(state, s, description, cwLogUrl, ok) ==
    StatusWritten(state, s,
        TrainingJobStatus(description.TrainingJobStatus, description.SecondaryStatus,
                          state.Spec.TrainingJobName,
                          GetOrDefault(description.FailureReason, ""), cwLogUrl, ""),
        ok, RequeueAfterInterval(PollInterval, ~ok))

\* A model path with a "/" between the output path and the job name.
modelPath_WithSeparator(state) ==
    state.Spec.S3OutputPath \o "/" \o state.Status.SageMakerTrainingJobName
        \o outputPath

\* The model path of a completed job: the output path of the spec, the job name
\* of the status and the constant suffix, one after the other.
modelPath(state) ==
    state.Spec.S3OutputPath \o state.Status.SageMakerTrainingJobName \o outputPath

\* Base cases that keep polling a completed job.
BaseCases_PollsWhenCompleted(state, s, description, cwLogUrl, ok) ==
    IF description.TrainingJobStatus \in
            {TrainingJobStatusInProgress, TrainingJobStatusStopping}
    THEN StatusWritten(state, s,
            TrainingJobStatus(description.TrainingJobStatus, description.SecondaryStatus,
                              state.Spec.TrainingJobName, "", cwLogUrl, ""),
            ok, RequeueAfterInterval(PollInterval, ~ok))
    ELSE IF description.TrainingJobStatus \in
            {TrainingJobStatusStopped, TrainingJobStatusFailed}
    THEN Return(state, s, NoRequeue)
    ELSE IF description.TrainingJobStatus = TrainingJobStatusCompleted
    THEN StatusWritten(state, s,
            TrainingJobStatus(description.TrainingJobStatus,
                              description.SecondaryStatus,
                              state.Spec.TrainingJobName, "", cwLogUrl,
                              modelPath(state)),
            ok, RequeueAfterInterval(PollInterval, ~ok))
    ELSE Return(state, s, NoRequeue)

\* Base cases that treat a stopped or failed job like a running one.
BaseCases_PollsWhenStopped(state, s, description, cwLogUrl, ok) ==
    IF description.TrainingJobStatus \in
            {TrainingJobStatusInProgress, TrainingJobStatusStopping,
             TrainingJobStatusStopped, TrainingJobStatusFailed}
    THEN StatusWritten(state, s,
            TrainingJobStatus(description.TrainingJobStatus, description.SecondaryStatus,
                              state.Spec.TrainingJobName, "", cwLogUrl, ""),
            ok, RequeueAfterInterval(PollInterval, ~ok))
    ELSE IF description.TrainingJobStatus = TrainingJobStatusCompleted
    THEN StatusWritten(state, s,
            TrainingJobStatus(description.TrainingJobStatus,
                              description.SecondaryStatus,
                              state.Spec.TrainingJobName, "", cwLogUrl,
                              modelPath(state)),
            ok, IF ok THEN NoRequeue ELSE RequeueIfError(TRUE))
    ELSE Return(state, s, NoRequeue)

\* BASE CASES: the status matches the description.
BaseCases(state, s, description, cwLogUrl, ok) ==
    IF description.TrainingJobStatus \in
            {TrainingJobStatusInProgress, TrainingJobStatusStopping}
    THEN StatusWritten(state, s,
            TrainingJobStatus(description.TrainingJobStatus, description.SecondaryStatus,
                              state.Spec.TrainingJobName, "", cwLogUrl, ""),
            ok, RequeueAfterInterval(PollInterval, ~ok))
    ELSE IF description.TrainingJobStatus \in
            {TrainingJobStatusStopped, TrainingJobStatusFailed}
    THEN Return(state, s, NoRequeue)
    ELSE IF description.TrainingJobStatus = TrainingJobStatusCompleted
    THEN StatusWritten(state, s,
            TrainingJobStatus(description.TrainingJobStatus,
                              description.SecondaryStatus,
                              state.Spec.TrainingJobName, "", cwLogUrl,
                              modelPath(state)),
            ok, IF ok THEN NoRequeue ELSE RequeueIfError(TRUE))
    ELSE Return(state, s, NoRequeue)

\* !state.ObjectMeta.DeletionTimestamp.IsZero()
UnderDeletion(state) == state.DeletionTimestamp

\* The sections in another order: the finalizer is attached before the spec is
\* compared with the description.
AfterDescribe_FinalizerBeforeDrift(state, s, descErr, description, createErr, stopErr, ok) ==
    LET cwLogUrl == CloudWatchLogUrl(state)
        isRequestFailure == descErr.requestFailure
    IN  IF UnderDeletion(state) /\ (descErr.nil \/ isRequestFailure)
        THEN DeletionBranch(state, s, descErr, description, cwLogUrl, stopErr, ok)
        ELSE IF isRequestFailure
        THEN CreationBranch(state, s, descErr, cwLogUrl, createErr, ok)
        ELSE IF ~descErr.nil
        THEN Panic(state, s)
        ELSE IF ~UnderDeletion(state)
                /\ ~ContainsString(state.Finalizers, SageMakerResourceFinalizerName)
        THEN AddFinalizer(state, s, ok)
        ELSE IF ~TrainingJobSpecMatchesDescription(description, state.Spec)
        THEN SpecDiffers(state, s, description, ok)
        ELSE IF ~etcdMatchesSmApi(state, description)
        THEN SyncStatus(state, s, description, cwLogUrl, ok)
        ELSE BaseCases(state, s, description, cwLogUrl, ok)

\* The pass from the describe call's answer on.
AfterDescribe(state, s, descErr, description, createErr, stopErr, ok) ==
    LET cwLogUrl == CloudWatchLogUrl(state)
        isRequestFailure == descErr.requestFailure
    IN  IF UnderDeletion(state) /\ (descErr.nil \/ isRequestFailure)
        THEN DeletionBranch(state, s, descErr, description, cwLogUrl, stopErr, ok)
        ELSE IF isRequestFailure
        THEN CreationBranch(state, s, descErr, cwLogUrl, createErr, ok)
        ELSE IF ~descErr.nil
        THEN Panic(state, s)      \* describeResponse is nil and is dereferenced
        ELSE IF ~TrainingJobSpecMatchesDescription(description, state.Spec)
        THEN SpecDiffers(state, s, description, ok)
        ELSE IF ~UnderDeletion(state)
                /\ ~ContainsString(state.Finalizers, SageMakerResourceFinalizerName)
        THEN AddFinalizer(state, s, ok)
        ELSE IF ~etcdMatchesSmApi(state, description)
        THEN SyncStatus(state, s, description, cwLogUrl, ok)
        ELSE BaseCases(state, s, description, cwLogUrl, ok)

\* The test of the name turned round: a name that is present counts as missing.
TrainingJobNameIsEmpty_Inverted(state) == state.Spec.TrainingJobName # ""

\* state.Spec.TrainingJobName == nil || len(*state.Spec.TrainingJobName) == 0
TrainingJobNameIsEmpty(state) == state.Spec.TrainingJobName = ""

\* A configuration failure recorded as the status Failed.
LoadAwsConfigFailed_WritesFailed(state, s) ==
    StatusWritten(state, s,
        TrainingJobStatus(TrainingJobStatusFailed, "", state.Spec.TrainingJobName,
                          "Error loading AWS config", "", ""),
        TRUE, NoRequeue)

\* LoadAwsConfigWithOverrides failed: the error is logged and the pass ends.
LoadAwsConfigFailed(state, s) == Return(state, s, NoRequeue)

\* The inputs of one pass: the outcome of the Get, of the configuration load, of
\* each remote call the pass may make, and of the datastore write it may make.
Reconcile(stored, s, in) ==
    IF ~stored.exists
    THEN Return(stored, s, RequeueIfError(FALSE))      \* IgnoreNotFound
    ELSE IF in.getErr
    THEN Return(stored, s, RequeueIfError(TRUE))
    ELSE IF stored.Status.TrainingJobStatus = ""
    THEN InitializeStatus(stored, s, in.ok)
    ELSE IF TrainingJobNameIsEmpty(stored)
    THEN AssignGeneratedName(stored, s, in.ok)
    ELSE IF in.cfgErr
    THEN LoadAwsConfigFailed(stored, s)
    ELSE AfterDescribe(stored, s, in.descErr, in.description, in.createErr,
                       in.stopErr, in.ok)


(***************************************************************************)
(* The remote API: what a call can answer in a given state of the remote   *)
(* job.  A created job is visible to describe only after it has            *)
(* propagated (the API is eventually consistent).                          *)
(***************************************************************************)
NoRemoteJob ==
    [exists |-> FALSE, visible |-> FALSE, TrainingJobStatus |-> "",
     SecondaryStatus |-> "", FailureReason |-> "", params |-> ""]

DescribeAnswers(s) ==
    (IF s.exists /\ s.visible THEN {NoError} ELSE {NotFoundError}) \cup FaultErrors

CreateAnswers(s) ==
    (IF s.exists THEN {ResourceInUseError} ELSE {NoError}) \cup FaultErrors

StopAnswers(s) == {NoError} \cup FaultErrors

\* DescribeTrainingJobOutput of the remote job.
Description(s) ==
    [TrainingJobStatus |-> s.TrainingJobStatus, SecondaryStatus |-> s.SecondaryStatus,
     FailureReason |-> s.FailureReason, params |-> s.params]

NoDescription ==
    [TrainingJobStatus |-> "", SecondaryStatus |-> "", FailureReason |-> "", params |-> ""]

(***************************************************************************)
(* The state machine.                                                      *)
(***************************************************************************)
NoPass ==
    [ran |-> FALSE, pre |-> {}, smExisted |-> FALSE, described |-> FALSE,
     descErr |-> NoError, description |-> NoDescription,
     result |-> NoRequeue, panic |-> FALSE,
     create |-> FALSE, createErr |-> NoError, stop |-> FALSE, stopErr |-> NoError,
     statusWrite |-> FALSE, update |-> FALSE, writeFailed |-> FALSE,
     changed |-> FALSE, getErr |-> FALSE, cfgErr |-> FALSE,
     source |-> EmptyStatus, post |-> {}, conflict |-> FALSE]

\* No second pass is under way.
NoInflight ==
    [active |-> FALSE, stale |-> FALSE, snapshot |-> {},
     descErr |-> NoError, description |-> NoDescription]

\* The datastore versions every stored object: a write that goes through makes
\* the snapshot of a pass that read the object earlier an old one.
Overtaken(wrote) ==
    IF inflight.active /\ wrote THEN [inflight EXCEPT !.stale = TRUE] ELSE inflight

\* The user has submitted the object, with or without a job name of their own.
Init ==
    /\ \E name \in {"", UserJobName} :
          job = [exists |-> TRUE, Name |-> ObjectName, UID |-> ObjectUID,
                 Spec |-> [TrainingJobName |-> name, Region |-> Region,
                           S3OutputPath |-> S3OutputPath,
                           params |-> SubmittedParams],
                 Status |-> EmptyStatus, Finalizers |-> <<>>,
                 DeletionTimestamp |-> FALSE, Generation |-> 1]
    /\ sm = NoRemoteJob
    /\ queued = TRUE
    /\ pass = NoPass
    /\ edits = 0
    /\ inflight = NoInflight

\* Whether the pass gets as far as the describe call.
ReachesDescribe(stored, getErr, cfgErr) ==
    /\ stored.exists /\ ~getErr
    /\ stored.Status.TrainingJobStatus # ""
    /\ ~TrainingJobNameIsEmpty(stored)
    /\ ~cfgErr

\* The answers of the calls a pass makes.  A call the pass cannot make in this
\* state (no describe before the name is assigned, no create unless describe
\* answered not-found, no stop unless the described job is in progress) has no
\* answer to choose.
DescribeInputs(stored, s, getErr, cfgErr) ==
    IF ReachesDescribe(stored, getErr, cfgErr) THEN DescribeAnswers(s) ELSE {NoError}

CreateInputs(s, descErr) ==
    IF descErr = NotFoundError THEN CreateAnswers(s) ELSE {NoError}

StopInputs(s, descErr) ==
    IF descErr.nil /\ s.TrainingJobStatus = TrainingJobStatusInProgress
    THEN StopAnswers(s) ELSE {NoError}

\* The failures before the describe call: of the Get, of the configuration load.
EarlyInputs == {<<FALSE, FALSE>>, <<TRUE, FALSE>>, <<FALSE, TRUE>>}

\* The dispatcher runs one pass for the queued object.
ReconcilePass ==
    /\ queued
    /\ \E early \in EarlyInputs, ok \in BOOLEAN :
       \E descErr \in DescribeInputs(job, sm, early[1], early[2]) :
       \E createErr \in CreateInputs(sm, descErr), stopErr \in StopInputs(sm, descErr) :
          LET getErr == early[1]
              cfgErr == early[2]
              in == [getErr |-> getErr, cfgErr |-> cfgErr, ok |-> ok,
                     descErr |-> descErr,
                     description |-> IF descErr.nil THEN Description(sm)
                                     ELSE NoDescription,
                     createErr |-> createErr, stopErr |-> stopErr]
              out == Reconcile(job, sm, in)
              described == ReachesDescribe(job, getErr, cfgErr)
          IN  /\ job' = out.job
              /\ sm' = out.sm
              /\ pass' = [ran |-> TRUE, pre |-> job, smExisted |-> sm.exists,
                          described |-> described,
                          descErr |-> IF described THEN descErr ELSE NoError,
                          description |-> IF described THEN in.description
                                          ELSE NoDescription,
                          result |-> out.result, panic |-> out.panic,
                          create |-> out.create, createErr |-> out.createErr,
                          stop |-> out.stop, stopErr |-> out.stopErr,
                          statusWrite |-> out.statusWrite, update |-> out.update,
                          writeFailed |-> out.writeFailed,
                          changed |-> out.job # job,
                          getErr |-> job.exists /\ getErr,
                          cfgErr |-> /\ job.exists /\ cfgErr
                                     /\ job.Status.TrainingJobStatus # ""
                                     /\ ~TrainingJobNameIsEmpty(job),
                          source |-> out.source, post |-> out.job,
                          conflict |-> FALSE]
              \* The directive, a panic (the process restarts and lists the
              \* objects again) or the event of a spec update queues the next pass.
              /\ queued' = \/ out.panic
                           \/ out.result.Requeue
                           \/ out.result.RequeueAfter > 0
                           \/ out.result.err
                           \/ out.job.Generation # job.Generation
              /\ inflight' = Overtaken((out.statusWrite \/ out.update)
                                            /\ ~out.writeFailed)
    /\ UNCHANGED edits

\* The user deletes the object.  In the background the datastore removes it at
\* once when it carries no finalizer, and marks it for deletion otherwise; in
\* the foreground the datastore marks it for deletion and adds a finalizer of
\* its own, which its garbage collector removes later.  The foreground case is
\* kept to an object without finalizers: beside the reconciler's own finalizer
\* the second one changes nothing that a pass reads.
UserDelete ==
    /\ job.exists /\ ~job.DeletionTimestamp
    /\ \/ job' = IF job.Finalizers = <<>>
                 THEN [job EXCEPT !.exists = FALSE]
                 ELSE [job EXCEPT !.DeletionTimestamp = TRUE, !.Generation = @ + 1]
       \/ /\ job.Finalizers = <<>>
          /\ job' = [job EXCEPT !.DeletionTimestamp = TRUE, !.Generation = @ + 1,
                                !.Finalizers = <<ForegroundDeletionFinalizer>>]
    /\ queued' = TRUE
    /\ inflight' = Overtaken(TRUE)
    /\ UNCHANGED <<sm, pass, edits>>

\* The garbage collector of the datastore removes its own finalizer; the object
\* goes away with its last finalizer.
GarbageCollect ==
    /\ job.exists /\ job.DeletionTimestamp
    /\ ContainsString(job.Finalizers, ForegroundDeletionFinalizer)
    /\ LET rest == RemoveString(job.Finalizers, ForegroundDeletionFinalizer)
       IN  job' = [job EXCEPT !.Finalizers = rest, !.exists = rest # <<>>]
    /\ queued' = TRUE
    /\ inflight' = Overtaken(TRUE)
    /\ UNCHANGED <<sm, pass, edits>>

\* The user edits the job parameters of the spec.
UserEditSpec ==
    /\ job.exists /\ ~job.DeletionTimestamp
    /\ edits < MaxEdits
    /\ \E p \in ParamValues \ {job.Spec.params} :
          job' = [job EXCEPT !.Spec.params = p, !.Generation = @ + 1]
    /\ edits' = edits + 1
    /\ queued' = TRUE
    /\ inflight' = Overtaken(TRUE)
    /\ UNCHANGED <<sm, pass>>

\* The created job becomes visible to describe.
RemotePropagate ==
    /\ sm.exists /\ ~sm.visible
    /\ sm' = [sm EXCEPT !.visible = TRUE]
    /\ UNCHANGED <<job, queued, pass, edits, inflight>>

\* The remote job moves on by itself.
RemoteProgress ==
    /\ sm.exists
    /\ \/ /\ sm.TrainingJobStatus = TrainingJobStatusInProgress
          /\ \/ /\ sm.SecondaryStatus = "Starting"
                /\ sm' = [sm EXCEPT !.SecondaryStatus = "Training"]
             \/ sm' = [sm EXCEPT !.TrainingJobStatus = TrainingJobStatusCompleted,
                                 !.SecondaryStatus = "Completed"]
             \/ sm' = [sm EXCEPT !.TrainingJobStatus = TrainingJobStatusFailed,
                                 !.SecondaryStatus = "Failed",
                                 !.FailureReason = "AlgorithmError"]
             \/ sm' = [sm EXCEPT !.TrainingJobStatus = UnknownRemoteStatus,
                                 !.SecondaryStatus = UnknownRemoteStatus]
             \* somebody stops the job through the remote API itself
             \/ sm' = [sm EXCEPT !.TrainingJobStatus = TrainingJobStatusStopping,
                                 !.SecondaryStatus = TrainingJobStatusStopping]
       \/ /\ sm.TrainingJobStatus = UnknownRemoteStatus
          /\ sm' = [sm EXCEPT !.TrainingJobStatus = TrainingJobStatusInProgress,
                              !.SecondaryStatus = "Training"]
       \/ /\ sm.TrainingJobStatus = TrainingJobStatusStopping
          /\ sm' = [sm EXCEPT !.TrainingJobStatus = TrainingJobStatusStopped,
                              !.SecondaryStatus = "Stopped"]
    /\ UNCHANGED <<job, queued, pass, edits, inflight>>

\* The operator restarts (or resynchronizes): the object is queued again.
Resync ==
    /\ ~queued
    /\ queued' = TRUE
    /\ UNCHANGED <<job, sm, pass, edits, inflight>>

Next ==
    \/ ReconcilePass
    \/ UserDelete
    \/ GarbageCollect
    \/ UserEditSpec
    \/ RemotePropagate
    \/ RemoteProgress
    \/ Resync

Spec == Init /\ [][Next]_vars


(***************************************************************************)
(* Two passes for the same object that interleave.  The work queue of the  *)
(* dispatcher keeps the passes of one object apart, but not across a       *)
(* restart: a pass of the old process may still be under way when the new  *)
(* process runs its own.  Such a pass is taken in two steps, the Get with  *)
(* the describe call, and the rest; whole passes run between the two.      *)
(***************************************************************************)
\* What the stop call of a pass answers that decided on it from a description
\* taken earlier: the remote job may have left InProgress since.
LateStopInputs(s, descErr, description) ==
    IF descErr.nil /\ description.TrainingJobStatus = TrainingJobStatusInProgress
    THEN IF s.TrainingJobStatus = TrainingJobStatusInProgress
         THEN {NoError} ELSE {ValidationError}
    ELSE {NoError}

\* The answers the state of the remote job determines, with no fault injected:
\* the faults of a call are those of any pass, interleaved or not.
PlainDescribeInputs(stored, s) ==
    IF ReachesDescribe(stored, FALSE, FALSE)
    THEN DescribeAnswers(s) \ FaultErrors ELSE {NoError}

PlainCreateInputs(s, descErr) ==
    IF descErr = NotFoundError THEN CreateAnswers(s) \ FaultErrors ELSE {NoError}

\* r.Get and DescribeTrainingJob of a second pass: it holds a snapshot of the
\* object and the answer of the describe call.
StartPass ==
    /\ ~inflight.active
    /\ job.exists
    /\ \E descErr \in PlainDescribeInputs(job, sm) :
          inflight' = [active |-> TRUE, stale |-> FALSE, snapshot |-> job,
                       descErr |-> descErr,
                       description |-> IF descErr.nil THEN Description(sm)
                                       ELSE NoDescription]
    /\ UNCHANGED <<job, sm, queued, pass, edits>>

\* The rest of the second pass: the remote call it decides on and its datastore
\* write.  The datastore rejects a write made from an old snapshot (a conflict)
\* or for an object that is gone.
FinishPass ==
    /\ inflight.active
    /\ \E createErr \in PlainCreateInputs(sm, inflight.descErr),
          stopErr \in LateStopInputs(sm, inflight.descErr, inflight.description) :
          LET state == inflight.snapshot
              in == [getErr |-> FALSE, cfgErr |-> FALSE,
                     ok |-> ~inflight.stale,
                     descErr |-> inflight.descErr,
                     description |-> inflight.description,
                     createErr |-> createErr, stopErr |-> stopErr]
              out == Reconcile(state, sm, in)
              described == ReachesDescribe(state, FALSE, FALSE)
              wrote == (out.statusWrite \/ out.update) /\ ~out.writeFailed
          IN  /\ job' = IF wrote THEN out.job ELSE job
              /\ sm' = out.sm
              /\ pass' = [ran |-> TRUE, pre |-> state, smExisted |-> sm.exists,
                          described |-> described,
                          descErr |-> IF described THEN in.descErr ELSE NoError,
                          description |-> IF described THEN in.description
                                          ELSE NoDescription,
                          result |-> out.result, panic |-> out.panic,
                          create |-> out.create, createErr |-> out.createErr,
                          stop |-> out.stop, stopErr |-> out.stopErr,
                          statusWrite |-> out.statusWrite, update |-> out.update,
                          writeFailed |-> out.writeFailed,
                          changed |-> wrote /\ out.job # job,
                          getErr |-> FALSE, cfgErr |-> FALSE,
                          source |-> out.source, post |-> job',
                          conflict |-> /\ inflight.stale
                                       /\ out.statusWrite \/ out.update]
              /\ queued' = \/ queued
                           \/ out.panic
                           \/ out.result.Requeue
                           \/ out.result.RequeueAfter > 0
                           \/ out.result.err
                           \/ job'.Generation # job.Generation
    /\ inflight' = NoInflight
    /\ UNCHANGED edits

RaceNext ==
    \/ ReconcilePass
    \/ StartPass
    \/ FinishPass
    \/ RemotePropagate
    \/ RemoteProgress

\* The dispatcher runs the passes that are queued, a pass that is under way
\* comes to its end, and the remote side moves on.
RaceSpec ==
    /\ Init /\ [][RaceNext]_vars
    /\ WF_vars(ReconcilePass)
    /\ WF_vars(FinishPass)
    /\ WF_vars(RemotePropagate)
    /\ WF_vars(RemoteProgress)


(***************************************************************************)
(* Properties.                                                             *)
(***************************************************************************)
HasFinalizer(j) == ContainsString(j.Finalizers, SageMakerResourceFinalizerName)

\* The describe call of the last pass answered not-found.
DescribedNotFound ==
    /\ pass.described
    /\ pass.descErr.requestFailure
    /\ pass.descErr.Code = "ValidationException"
    /\ pass.descErr.Message = "Requested resource not found."

\* The describe call of the last pass answered with a terminal remote status.
DescribedTerminal ==
    /\ pass.described
    /\ pass.descErr.nil
    /\ pass.description.TrainingJobStatus \in TerminalStatuses

\* The last pass removed the finalizer marker from the stored object.
FinalizerRemoved == pass.ran /\ HasFinalizer(pass.pre) /\ ~HasFinalizer(job)

\* The directive of the last pass makes the dispatcher run another pass.
CausesAnotherPass ==
    pass.result.Requeue \/ pass.result.RequeueAfter > 0 \/ pass.result.err

\* C1: whenever a remote job exists for the object (a create call has
\* succeeded), the stored object carries the finalizer marker.
C1_FinalizerWhileRemoteJobExists ==
    (job.exists /\ sm.exists) => HasFinalizer(job)

\* C2: a step removes the finalizer marker only if it is a pass whose own
\* describe call returned not-found or a terminal remote status.
C2_FinalizerRemovedOnlyAfterAbsentOrTerminal ==
    [][(HasFinalizer(job) /\ ~HasFinalizer(job'))
        => (pass'.ran /\ pass'.pre = job /\ (DescribedNotFound' \/ DescribedTerminal'))]_vars

C2_Witness ==
    FinalizerRemoved /\ DescribedTerminal
        /\ pass.description.TrainingJobStatus = TrainingJobStatusStopped

\* C3 as stated: a pass removes the finalizer marker if and only if its
\* describe call returned not-found or a terminal remote status.
C3_RemovedIffAbsentOrTerminal ==
    (pass.ran /\ pass.described /\ HasFinalizer(pass.pre))
        => (~HasFinalizer(job) <=> (DescribedNotFound \/ DescribedTerminal))

\* C3 as amended: a pass on an object that carries the finalizer marker removes
\* it if and only if the object is under deletion, the describe call of the pass
\* returned not-found or a terminal remote status, and the update did not fail.
C3_RemovedIffDeletingAbsentOrTerminalAndStored ==
    (pass.ran /\ HasFinalizer(pass.pre))
        => (~HasFinalizer(job)
              <=> /\ pass.pre.DeletionTimestamp
                  /\ DescribedNotFound \/ DescribedTerminal
                  /\ ~pass.writeFailed)

C3_Witness ==
    FinalizerRemoved /\ pass.pre.DeletionTimestamp /\ DescribedTerminal
        /\ pass.description.TrainingJobStatus = TrainingJobStatusCompleted
        /\ pass.update /\ ~pass.writeFailed

\* C4: once the stored primary status of an object that is not under deletion
\* is terminal, no step replaces it by a status that is not terminal.
C4_TerminalStatusNeverOverwritten ==
    [][(job.exists /\ ~job.DeletionTimestamp
            /\ job.Status.TrainingJobStatus \in TerminalStatuses)
        => job'.Status.TrainingJobStatus \in TerminalStatuses]_vars

\* C5: a pass on an object that is not under deletion and whose stored primary
\* status is terminal issues neither a create nor a stop call.
C5_NoRemoteMutationAfterTerminal ==
    (pass.ran /\ pass.pre.exists /\ ~pass.pre.DeletionTimestamp
        /\ pass.pre.Status.TrainingJobStatus \in TerminalStatuses)
        => (~pass.create /\ ~pass.stop)

\* The describe call of the last pass succeeded and the stored status already
\* equalled the remote primary and secondary status.
DescribedAndMatching ==
    /\ pass.ran /\ pass.described /\ pass.descErr.nil
    /\ pass.pre.Status.TrainingJobStatus = pass.description.TrainingJobStatus
    /\ pass.pre.Status.SecondaryStatus = pass.description.SecondaryStatus

\* C6 as stated: a pass whose describe call succeeds and whose stored status
\* already matches issues no create and no stop call, under deletion or not.
C6_MatchingPassIssuesNoCall ==
    DescribedAndMatching => (~pass.create /\ ~pass.stop)

\* C6 as amended: such a pass issues no create call, and it issues a stop call
\* only for an object under deletion that carries the finalizer marker and whose
\* describe call returned InProgress.
C6_MatchingPassIssuesNoCallUnlessDeleting ==
    DescribedAndMatching
        => /\ ~pass.create
           /\ pass.stop => /\ pass.pre.DeletionTimestamp
                           /\ HasFinalizer(pass.pre)
                           /\ pass.description.TrainingJobStatus
                                  = TrainingJobStatusInProgress

C6_Witness ==
    /\ DescribedAndMatching /\ ~pass.pre.DeletionTimestamp
    /\ pass.description.TrainingJobStatus = TrainingJobStatusInProgress
    /\ HasFinalizer(pass.pre)

\* C7: no pass issues a create call once a create call for the object has
\* succeeded (the remote job exists), whatever the describe call answers.
C7_NoCreateAfterSuccessfulCreate ==
    ~(pass.ran /\ pass.create /\ pass.smExisted)

\* C8: every pass ends by returning a directive; none ends in a panic.
C8_EveryPassReturnsDirective ==
    pass.ran => ~pass.panic

\* C9: a pass whose datastore write failed returns a directive that causes
\* another pass.
C9_FailedWriteCausesAnotherPass ==
    (pass.ran /\ pass.writeFailed) => CausesAnotherPass

C9_Witness ==
    /\ pass.ran /\ pass.writeFailed /\ pass.statusWrite
    /\ pass.pre.DeletionTimestamp
    /\ pass.description.TrainingJobStatus = TrainingJobStatusStopping
    /\ CausesAnotherPass

\* A server fault or the rate-limit signature.
IsTransient(e) ==
    /\ ~e.nil
    /\ e.requestFailure
    /\ \/ e.StatusCode >= 500
       \/ e.Code = "ThrottlingException" /\ e.Message = "Rate exceeded"

\* A remote call of the last pass failed with a server fault or the rate limit.
TransientFailure ==
    /\ pass.ran
    /\ \/ pass.described /\ IsTransient(pass.descErr)
       \/ pass.create /\ IsTransient(pass.createErr)
       \/ pass.stop /\ IsTransient(pass.stopErr)

\* C10: a pass in which describe, create or stop fails with a server fault or
\* the rate-limit signature writes nothing to the datastore and returns
\* requeue-after(PollInterval).
C10_TransientFailureWritesNothing ==
    TransientFailure
        => /\ ~pass.statusWrite /\ ~pass.update /\ ~pass.changed
           /\ ~pass.panic
           /\ ~pass.result.Requeue
           /\ pass.result.RequeueAfter = PollInterval

C10_Witness ==
    /\ TransientFailure
    /\ pass.descErr = ThrottlingError
    /\ pass.result.RequeueAfter = PollInterval
    /\ pass.pre.Status.TrainingJobStatus = TrainingJobStatusInProgress

\* An error that is neither a server fault nor the rate-limit signature.
IsUnrecoverable(e) == ~e.nil /\ ~IsTransient(e)

\* The error of the remote call that failed in the last pass.
FailedCallError ==
    IF pass.create THEN pass.createErr
    ELSE IF pass.stop THEN pass.stopErr
    ELSE pass.descErr

\* A remote call of the last pass failed with an error that is neither the
\* not-found signature on describe, nor a server fault, nor the rate limit.
UnrecoverableFailure ==
    /\ pass.ran
    /\ \/ pass.described /\ IsUnrecoverable(pass.descErr) /\ ~DescribedNotFound
       \/ pass.create /\ IsUnrecoverable(pass.createErr)
       \/ pass.stop /\ IsUnrecoverable(pass.stopErr)

\* C11: a pass in which a remote call fails with an error that is neither the
\* not-found signature (on describe), nor a server fault, nor the rate-limit
\* signature replaces the status by primary status Failed with the raw error
\* text in Additional, and returns requeue only if that write failed.
C11_UnrecoverableFailureWritesFailed ==
    UnrecoverableFailure
        => /\ ~pass.panic
           /\ pass.statusWrite
           /\ pass.source.TrainingJobStatus = TrainingJobStatusFailed
           /\ pass.source.Additional = ErrorText(FailedCallError)
           /\ ~pass.writeFailed => pass.post.Status = pass.source
           /\ pass.result = RequeueIfError(pass.writeFailed)

\* The error policy of handleSageMakerApiError applied to the error e: nothing
\* written and requeue-after(PollInterval) for a server fault or the rate
\* limit, the status Failed with the error text otherwise.
ErrorPolicyApplied(e) ==
    /\ ~pass.panic
    /\ IF IsTransient(e)
       THEN /\ ~pass.statusWrite /\ ~pass.update
            /\ pass.result.RequeueAfter = PollInterval
       ELSE /\ pass.statusWrite
            /\ pass.source.TrainingJobStatus = TrainingJobStatusFailed
            /\ pass.source.Additional = ErrorText(e)
            /\ pass.result = RequeueIfError(pass.writeFailed)

\* C12: for an object that is not under deletion, has a status and a name, a
\* pass whose describe fails with the not-found signature issues one create
\* call; after a successful create it writes nothing and returns
\* requeue-immediately, after a failed create the error policy is applied.
C12_NotFoundCreatesOnce ==
    (pass.ran /\ DescribedNotFound /\ ~pass.pre.DeletionTimestamp)
        => /\ pass.create /\ ~pass.stop
           /\ pass.createErr.nil
                => /\ pass.result = RequeueImmediately
                   /\ ~pass.statusWrite /\ ~pass.update /\ ~pass.changed
           /\ ~pass.createErr.nil => ErrorPolicyApplied(pass.createErr)

(***************************************************************************)
(* The specification with the scheduling the dispatcher provides: a queued *)
(* object gets its pass, and the remote side does not stand still.         *)
(***************************************************************************)
\* The operator keeps running: no restart queues the object again.
FairNext ==
    \/ ReconcilePass
    \/ UserDelete
    \/ GarbageCollect
    \/ UserEditSpec
    \/ RemotePropagate
    \/ RemoteProgress

FairSpec ==
    /\ Init /\ [][FairNext]_vars
    /\ WF_vars(ReconcilePass)
    /\ WF_vars(RemotePropagate)
    /\ WF_vars(RemoteProgress)

\* An injected failure in the last pass: of the Get, of the configuration load,
\* of a remote call (other than the answers the state of the remote job
\* determines) or of the datastore write.
Faulted ==
    /\ pass.ran
    /\ \/ pass.getErr \/ pass.cfgErr \/ pass.writeFailed \/ pass.panic
       \/ pass.described /\ pass.descErr \in FaultErrors
       \/ pass.create /\ pass.createErr \in FaultErrors
       \/ pass.stop /\ pass.stopErr \in FaultErrors

DeletingWithFinalizer ==
    job.exists /\ job.DeletionTimestamp /\ HasFinalizer(job)

\* The remote job is absent or in a terminal status.
RemoteSettled == ~sm.exists \/ sm.TrainingJobStatus \in TerminalStatuses

\* C13: under fair scheduling of the passes the directives ask for, if the
\* remote job ends up terminal or absent (and, what is more than the claim
\* assumes, no call fails from some point on), an object under deletion that
\* carries the finalizer marker eventually loses it.
C13_DeletionLiveness ==
    (<>[]RemoteSettled /\ <>[][pass' = pass \/ ~Faulted']_vars)
        => (DeletingWithFinalizer ~> ~(job.exists /\ HasFinalizer(job)))

\* C14: under fair scheduling, for an object that is never deleted, whose spec
\* is never edited, whose calls never fail (more than the claim assumes, which
\* lets them fail for a while) and whose remote job only takes statuses the
\* code knows and ends up Completed, the stored primary status eventually is
\* Completed with the model path set.
C14_Convergence ==
    (/\ [](job.exists /\ ~job.DeletionTimestamp)
     /\ [](edits = 0)
     /\ []~Faulted
     /\ [](sm.TrainingJobStatus # UnknownRemoteStatus)
     /\ <>[](sm.TrainingJobStatus = TrainingJobStatusCompleted))
        => <>(/\ job.Status.TrainingJobStatus = TrainingJobStatusCompleted
              /\ job.Status.ModelPath # "")

\* C15: the job name of the spec is assigned at most once and never changes:
\* a step changes it only if it is a pass that finds it empty and stores the
\* object, and a name that is not empty keeps its value in every step.
C15_NameAssignedOnceNeverChanges ==
    [][/\ job.Spec.TrainingJobName # ""
            => job'.Spec.TrainingJobName = job.Spec.TrainingJobName
       /\ job'.Spec.TrainingJobName # job.Spec.TrainingJobName
            => /\ pass'.ran /\ pass'.pre = job /\ pass'.update
               /\ job.Spec.TrainingJobName = ""]_vars

\* A pass has stored the whole object (the finalizer added) after the name was
\* generated, and the generated name is still there.
C15_Witness ==
    /\ pass.ran /\ pass.update /\ ~pass.writeFailed
    /\ pass.pre.Spec.TrainingJobName = getTrainingJobName(job)
    /\ HasFinalizer(job)
    /\ job.Spec.TrainingJobName = getTrainingJobName(job)

\* C16: after a successful status write the stored status equals the value the
\* caller supplied in every field, and the spec and the finalizers are as the
\* pass found them.
C16_StatusWriteReplacesWholeStatus ==
    (pass.ran /\ pass.statusWrite /\ ~pass.writeFailed)
        => /\ pass.post.Status = pass.source
           /\ pass.post.Spec = pass.pre.Spec
           /\ pass.post.Finalizers = pass.pre.Finalizers

\* A status write whose value has no Additional text replaced a status that
\* had one: the field is empty afterwards.
C16_Witness ==
    /\ pass.ran /\ pass.statusWrite /\ ~pass.writeFailed
    /\ pass.pre.Status.Additional # ""
    /\ pass.source.Additional = ""
    /\ pass.post.Status.Additional = ""
    /\ pass.post.Status.TrainingJobStatus = TrainingJobStatusInProgress

\* The last pass read the object (it exists and the Get did not fail).
PassReadObject == pass.ran /\ pass.pre.exists /\ ~pass.getErr

\* The string ends with the given suffix.
EndsWith(str, suffix) ==
    /\ Len(str) >= Len(suffix)
    /\ SubSeq(str, Len(str) - Len(suffix) + 1, Len(str)) = suffix

\* C17: for an object with empty status and empty name, the first pass only
\* writes the status (the initializing marker, with requeue-immediately, when
\* the write succeeds); the next pass only stores the object with the generated
\* name (at most 63 characters, ending with the UID, with no-further-action,
\* when the update succeeds).  The status is initialised before the name is
\* assigned, and no pass calls the remote API before the name is assigned.
C17_BootstrapOrdering ==
    /\ (PassReadObject /\ pass.pre.Status.TrainingJobStatus = ""
                       /\ pass.pre.Spec.TrainingJobName = "")
          => /\ pass.statusWrite /\ ~pass.update
             /\ pass.post.Spec.TrainingJobName = ""
             /\ ~pass.writeFailed
                  => /\ pass.post.Status.TrainingJobStatus = InitializingJobStatus
                     /\ pass.result = RequeueImmediately
    /\ (PassReadObject /\ pass.pre.Status.TrainingJobStatus # ""
                       /\ pass.pre.Spec.TrainingJobName = "")
          => /\ pass.update /\ ~pass.statusWrite
             /\ ~pass.writeFailed
                  => /\ Len(pass.post.Spec.TrainingJobName) \in 1..MaxNameLen
                     /\ EndsWith(pass.post.Spec.TrainingJobName, pass.pre.UID)
                     /\ pass.result = NoRequeue
    /\ (pass.ran /\ pass.pre.Spec.TrainingJobName = "")
          => ~pass.described /\ ~pass.create /\ ~pass.stop
    /\ (job.Status.TrainingJobStatus = "")
          => job.Spec.TrainingJobName \in {"", UserJobName}

\* The second pass has stored a generated name that had to be cut to the
\* maximum length.
C17_Witness ==
    /\ PassReadObject /\ pass.update /\ ~pass.writeFailed
    /\ pass.pre.Status.TrainingJobStatus = InitializingJobStatus
    /\ pass.pre.Spec.TrainingJobName = ""
    /\ Len(pass.pre.Name) + 1 + Len(pass.pre.UID) > MaxNameLen
    /\ Len(job.Spec.TrainingJobName) = MaxNameLen
    /\ pass.result = NoRequeue

\* The last pass, on an object not under deletion that carries the finalizer
\* marker and whose spec is the one the job was created from, found the remote
\* status Completed and the stored status matching it.
CompletedAndMatching ==
    /\ DescribedAndMatching
    /\ ~pass.pre.DeletionTimestamp
    /\ HasFinalizer(pass.pre)
    /\ TrainingJobSpecMatchesDescription(pass.description, pass.pre.Spec)
    /\ pass.description.TrainingJobStatus = TrainingJobStatusCompleted

\* C18: a pass on an object not under deletion that finds the remote status
\* Completed and the stored status matching stores the model path
\* S3OutputPath, "/", the job name and "/output/model.tar.gz", and returns
\* no-further-action.
C18_ModelPathWithSeparator ==
    (CompletedAndMatching /\ ~pass.writeFailed)
        => /\ pass.statusWrite
           /\ pass.post.Status.ModelPath =
                 pass.pre.Spec.S3OutputPath \o "/" \o pass.pre.Spec.TrainingJobName
                     \o "/output/model.tar.gz"
           /\ pass.result = NoRequeue

\* C19: with the output path "s3://bucket/prefix" and the job name "job-123"
\* the model path stored for the Completed job is
\* "s3://bucket/prefixjob-123/output/model.tar.gz", with nothing between the
\* output path and the job name.
C19_ModelPathConcatenated ==
    (/\ CompletedAndMatching /\ ~pass.writeFailed
     /\ pass.pre.Spec.S3OutputPath = "s3://bucket/prefix"
     /\ pass.pre.Spec.TrainingJobName = "job-123")
        => /\ pass.statusWrite
           /\ pass.post.Status.ModelPath = "s3://bucket/prefixjob-123/output/model.tar.gz"

C19_Witness ==
    /\ CompletedAndMatching /\ pass.statusWrite /\ ~pass.writeFailed
    /\ pass.pre.Spec.S3OutputPath = "s3://bucket/prefix"
    /\ pass.pre.Spec.TrainingJobName = "job-123"
    /\ job.Status.TrainingJobStatus = TrainingJobStatusCompleted
    /\ job.Status.ModelPath = "s3://bucket/prefixjob-123/output/model.tar.gz"

DescribedAs(status) ==
    /\ pass.ran /\ pass.described /\ pass.descErr.nil
    /\ pass.description.TrainingJobStatus = status

\* C21: a pass issues a stop call if and only if the object is under deletion,
\* carries the finalizer marker and the describe call of the pass returned
\* InProgress; after a successful stop the directive is requeue-immediately,
\* after a failed stop, of whatever kind, it is the one of the error policy and
\* never requeue-immediately; a pass that describes a deleting object without
\* the marker does nothing and returns no-further-action.
C21_StopOnlyWhenDeletingInProgress ==
    pass.ran
        => /\ pass.stop <=> /\ pass.pre.DeletionTimestamp
                            /\ HasFinalizer(pass.pre)
                            /\ DescribedAs(TrainingJobStatusInProgress)
           /\ (pass.stop /\ pass.stopErr.nil) => pass.result = RequeueImmediately
           /\ (pass.stop /\ ~pass.stopErr.nil)
                => /\ pass.result # RequeueImmediately
                   /\ ErrorPolicyApplied(pass.stopErr)
           /\ (pass.pre.DeletionTimestamp /\ ~HasFinalizer(pass.pre)
                    /\ pass.described /\ pass.descErr.nil)
                => /\ ~pass.stop /\ ~pass.create
                   /\ ~pass.statusWrite /\ ~pass.update /\ ~pass.changed
                   /\ pass.result = NoRequeue

\* The last pass ran on an object under deletion that carries the finalizer
\* marker, and its describe call returned the given remote status.
DeletingDescribedAs(status) ==
    /\ DescribedAs(status)
    /\ pass.pre.DeletionTimestamp
    /\ HasFinalizer(pass.pre)

\* C22: a pass on an object under deletion that carries the finalizer marker
\* and whose describe call returned Stopping issues no stop call, keeps the
\* marker, writes the remote primary and secondary status, and returns
\* requeue-after(PollInterval), so that the object stays queued for a later pass.
C22_StoppingWhileDeletingWaits ==
    DeletingDescribedAs(TrainingJobStatusStopping)
        => /\ ~pass.stop /\ ~pass.create /\ ~pass.update
           /\ HasFinalizer(pass.post)
           /\ pass.statusWrite
           /\ pass.source.TrainingJobStatus = pass.description.TrainingJobStatus
           /\ pass.source.SecondaryStatus = pass.description.SecondaryStatus
           /\ ~pass.writeFailed => pass.post.Status = pass.source
           /\ pass.result = RequeueAfterInterval(PollInterval, FALSE)
           /\ queued

\* The stop call of an earlier pass has landed: the pass replaces the stored
\* status InProgress by Stopping and waits.
C22_Witness ==
    /\ DeletingDescribedAs(TrainingJobStatusStopping)
    /\ pass.pre.Status.TrainingJobStatus = TrainingJobStatusInProgress
    /\ pass.statusWrite /\ ~pass.writeFailed
    /\ job.Status.TrainingJobStatus = TrainingJobStatusStopping
    /\ HasFinalizer(job) /\ job.DeletionTimestamp
    /\ pass.result.RequeueAfter = PollInterval

\* The statuses the code has a case for.
KnownStatuses ==
    {TrainingJobStatusInProgress, TrainingJobStatusStopping} \cup TerminalStatuses

\* The describe call of the last pass returned a status the code has no case for.
DescribedUnknown ==
    /\ pass.ran /\ pass.described /\ pass.descErr.nil
    /\ pass.description.TrainingJobStatus \notin KnownStatuses

\* The last pass found the stored status matching the description, on an object
\* that carries the finalizer marker and whose spec is the one the job was
\* created from: the pass reaches the base cases.
MatchingWithFinalizerAndNoDrift ==
    /\ DescribedAndMatching
    /\ HasFinalizer(pass.pre)
    /\ TrainingJobSpecMatchesDescription(pass.description, pass.pre.Spec)

\* C23: a pass whose describe call returns a status outside InProgress,
\* Stopping, Stopped, Failed and Completed does not crash, issues no create and
\* no stop call and does not remove the finalizer marker; on an object under
\* deletion it writes nothing and returns no-further-action, and so it does on
\* an object not under deletion whose stored status already matches.
C23_UnknownStatusIsLeftAlone ==
    DescribedUnknown
        => /\ ~pass.panic /\ ~pass.create /\ ~pass.stop
           /\ HasFinalizer(pass.pre) => HasFinalizer(pass.post)
           /\ pass.pre.DeletionTimestamp
                => /\ pass.result = NoRequeue
                   /\ ~pass.statusWrite /\ ~pass.update /\ ~pass.changed
           /\ (~pass.pre.DeletionTimestamp /\ MatchingWithFinalizerAndNoDrift)
                => /\ pass.result = NoRequeue
                   /\ ~pass.statusWrite /\ ~pass.update /\ ~pass.changed

\* A deleting object with the marker had its job described with an unknown
\* status: the marker is still there and no further pass is asked for.
C23_Witness ==
    /\ DescribedUnknown
    /\ pass.pre.DeletionTimestamp /\ HasFinalizer(pass.pre)
    /\ HasFinalizer(job) /\ job.exists
    /\ pass.result = NoRequeue

\* C24: a pass in which the load of the configuration fails issues no describe,
\* create or stop call, writes nothing to the datastore and returns
\* no-further-action without an error, under deletion or not.
C24_ConfigFailureDoesNothing ==
    (pass.ran /\ pass.cfgErr)
        => /\ ~pass.panic
           /\ ~pass.described /\ ~pass.create /\ ~pass.stop
           /\ ~pass.statusWrite /\ ~pass.update
           /\ pass.post = pass.pre
           /\ pass.result = NoRequeue
           /\ ~pass.result.err

\* The configuration load failed in a pass on an object under deletion that
\* carries the finalizer marker.
C24_Witness ==
    /\ pass.ran /\ pass.cfgErr
    /\ pass.pre.DeletionTimestamp /\ HasFinalizer(pass.pre)
    /\ job = pass.pre
    /\ ~queued

\* The describe call of the last pass, on an object not under deletion,
\* succeeded and the spec differs from the description.
DescribedWithDrift ==
    /\ pass.ran /\ pass.described /\ pass.descErr.nil
    /\ ~pass.pre.DeletionTimestamp
    /\ ~TrainingJobSpecMatchesDescription(pass.description, pass.pre.Spec)

\* C25: a pass on an object not under deletion whose describe call succeeds
\* with a description that differs from the spec writes the status Failed with
\* the text of the differences in Additional, adds no finalizer marker, issues
\* no create and no stop call, and returns requeue only if the write failed.
C25_DriftWritesFailed ==
    DescribedWithDrift
        => /\ pass.statusWrite /\ ~pass.update
           /\ pass.source.TrainingJobStatus = TrainingJobStatusFailed
           /\ pass.source.Additional =
                 CreateSpecDiffersFromDescriptionErrorMessage(
                     pass.pre, TrainingJobStatusFailed, pass.description)
           /\ ~pass.writeFailed => pass.post.Status = pass.source
           /\ pass.post.Finalizers = pass.pre.Finalizers
           /\ ~pass.create /\ ~pass.stop
           /\ pass.result = RequeueIfError(pass.writeFailed)

\* The spec was edited before the finalizer marker was attached: the pass
\* writes Failed and the object still has no marker.
C25_Witness ==
    /\ DescribedWithDrift
    /\ ~HasFinalizer(pass.pre) /\ ~HasFinalizer(job)
    /\ pass.statusWrite /\ ~pass.writeFailed
    /\ job.Status.TrainingJobStatus = TrainingJobStatusFailed
    /\ job.Status.Additional # ""
    /\ pass.result = NoRequeue

\* The last pass, on an object not under deletion, described the job with no
\* drift and found the finalizer marker absent.
DescribedWithoutFinalizer ==
    /\ pass.ran /\ pass.described /\ pass.descErr.nil
    /\ ~pass.pre.DeletionTimestamp
    /\ TrainingJobSpecMatchesDescription(pass.description, pass.pre.Spec)
    /\ ~HasFinalizer(pass.pre)

\* How often the finalizer marker is in the list.
MarkerCount(j) ==
    Len(SelectSeq(j.Finalizers, LAMBDA x : x = SageMakerResourceFinalizerName))

\* What a pass does about the marker besides the directive: absent, it is
\* added and the object stored with no status write; present, it is not added
\* again, so that the list never holds it twice.
MarkerAddedOnce ==
    /\ DescribedWithoutFinalizer
          => /\ pass.update /\ ~pass.statusWrite /\ ~pass.create /\ ~pass.stop
             /\ ~pass.writeFailed => MarkerCount(pass.post) = 1
             /\ pass.writeFailed => pass.result = RequeueIfError(TRUE)
    /\ (pass.ran /\ HasFinalizer(pass.pre)) => MarkerCount(pass.post) <= 1
    /\ job.exists => MarkerCount(job) <= 1

DescribedAndDiffering ==
    /\ pass.ran /\ pass.described /\ pass.descErr.nil
    /\ ~pass.pre.DeletionTimestamp
    /\ HasFinalizer(pass.pre)
    /\ TrainingJobSpecMatchesDescription(pass.description, pass.pre.Spec)
    /\ \/ pass.pre.Status.TrainingJobStatus # pass.description.TrainingJobStatus
       \/ pass.pre.Status.SecondaryStatus # pass.description.SecondaryStatus

\* C27: such a pass writes the status with the remote primary and secondary
\* status, the remote failure reason and the log URL computed in the pass,
\* issues no create and no stop call, and returns requeue-after(PollInterval)
\* whether the write succeeded or not.
C27_StatusSyncOverwrites ==
    DescribedAndDiffering
        => /\ pass.statusWrite /\ ~pass.update
           /\ pass.source.TrainingJobStatus = pass.description.TrainingJobStatus
           /\ pass.source.SecondaryStatus = pass.description.SecondaryStatus
           /\ pass.source.Additional = pass.description.FailureReason
           /\ pass.source.CloudWatchLogUrl = CloudWatchLogUrl(pass.pre)
           /\ ~pass.writeFailed => pass.post.Status = pass.source
           /\ ~pass.create /\ ~pass.stop
           /\ pass.result = RequeueAfterInterval(PollInterval, pass.writeFailed)

\* The remote job has failed: the pass replaces the stored status InProgress by
\* Failed with the failure reason of the description.
C27_Witness ==
    /\ DescribedAndDiffering
    /\ pass.pre.Status.TrainingJobStatus = TrainingJobStatusInProgress
    /\ pass.description.TrainingJobStatus = TrainingJobStatusFailed
    /\ pass.description.FailureReason # ""
    /\ ~pass.writeFailed
    /\ job.Status.Additional = pass.description.FailureReason
    /\ job.Status.CloudWatchLogUrl # ""
    /\ pass.result.RequeueAfter = PollInterval

\* The last pass, on an object not under deletion, described the job with the
\* spec it was created from and found the stored status equal to the remote one.
MatchingNotUnderDeletion ==
    /\ DescribedAndMatching
    /\ ~pass.pre.DeletionTimestamp
    /\ TrainingJobSpecMatchesDescription(pass.description, pass.pre.Spec)

\* C28: on an object not under deletion whose stored status already matches the
\* remote one, a pass that finds the job InProgress or Stopping rewrites the
\* status and returns requeue-after(PollInterval); a pass that finds it Stopped
\* or Failed writes nothing, issues no create and no stop call and returns
\* no-further-action.
C28_BaseCasesPollOrRest ==
    MatchingNotUnderDeletion
        => /\ pass.description.TrainingJobStatus \in
                    {TrainingJobStatusInProgress, TrainingJobStatusStopping}
                => /\ pass.statusWrite
                   /\ pass.source.TrainingJobStatus = pass.description.TrainingJobStatus
                   /\ pass.source.SecondaryStatus = pass.description.SecondaryStatus
                   /\ pass.result = RequeueAfterInterval(PollInterval, pass.writeFailed)
           /\ pass.description.TrainingJobStatus \in
                    {TrainingJobStatusStopped, TrainingJobStatusFailed}
                => /\ ~pass.statusWrite /\ ~pass.update
                   /\ ~pass.create /\ ~pass.stop
                   /\ pass.post = pass.pre
                   /\ pass.result = NoRequeue

\* A pass has found the stopped job already recorded as Stopped and has left the
\* object as it was.
C28_Witness ==
    /\ MatchingNotUnderDeletion
    /\ pass.description.TrainingJobStatus = TrainingJobStatusStopped
    /\ ~pass.statusWrite /\ ~pass.update
    /\ pass.result = NoRequeue
    /\ job = pass.pre

\* The last pass ran on an object under deletion and made the describe call.
DeletingDescribed ==
    pass.ran /\ pass.pre.DeletionTimestamp /\ pass.described

\* What a pass that leaves through the deletion branch may do after a describe
\* call that succeeded: nothing, a stop call (with the error policy when it
\* fails), the mirror of a Stopping job, or the removal of the finalizer marker.
\* It never writes the drift failure and never mirrors another status.
LeavesThroughDeletionBranch ==
    /\ pass.statusWrite /\ ~pass.stop
            => /\ HasFinalizer(pass.pre)
               /\ pass.description.TrainingJobStatus = TrainingJobStatusStopping
               /\ pass.source.TrainingJobStatus = TrainingJobStatusStopping
               /\ pass.source.Additional = ""
    /\ pass.statusWrite /\ pass.stop
            => pass.source.Additional = ErrorText(pass.stopErr)
    /\ pass.update
            => /\ HasFinalizer(pass.pre)
               /\ ~pass.writeFailed => ~HasFinalizer(pass.post)

\* C29: a pass on an object under deletion issues no create call and never adds
\* the finalizer marker; whatever its describe call answers, it returns a
\* directive from the deletion branch: after a describe that succeeded it neither
\* writes the drift failure nor mirrors the remote status as status convergence
\* does, and a describe error other than not-found is handled by the error
\* policy.
C29_DeletionBranchIsExclusive ==
    /\ pass.ran /\ pass.pre.DeletionTimestamp
            => /\ ~pass.create
               /\ ~HasFinalizer(pass.pre) => ~HasFinalizer(pass.post)
    /\ DeletingDescribed
            => /\ ~pass.panic
               /\ pass.descErr.nil => LeavesThroughDeletionBranch
               /\ ~pass.descErr.nil /\ ~DescribedNotFound
                    => ErrorPolicyApplied(pass.descErr)

\* C30: a pass issues a create call only after its own describe call answered
\* not-found, and a stop call only after its own describe call succeeded with
\* the status InProgress, whatever the stored status says; a pass that made no
\* describe call issues neither, and no pass issues both.
C30_DescribeBeforeAct ==
    pass.ran
        => /\ pass.create => pass.described /\ DescribedNotFound
           /\ pass.stop => /\ pass.described /\ pass.descErr.nil
                           /\ pass.description.TrainingJobStatus
                                = TrainingJobStatusInProgress
           /\ ~(pass.create /\ pass.stop)
           /\ ~pass.described => ~pass.create /\ ~pass.stop

\* A pass has issued the stop call for a job its describe call found InProgress
\* while the stored status was still another one.
C30_Witness ==
    /\ pass.ran /\ pass.stop /\ ~pass.create
    /\ pass.described /\ pass.descErr.nil
    /\ pass.description.TrainingJobStatus = TrainingJobStatusInProgress
    /\ pass.pre.Status.TrainingJobStatus # TrainingJobStatusInProgress

\* The step is the end of the second pass.
FinishesPass == inflight.active /\ ~inflight'.active

\* The directive queues another pass.
Requeues(result) == result.Requeue \/ result.RequeueAfter > 0 \/ result.err

\* A pass that ends on an old snapshot and attempts a write has the write
\* rejected, leaves the stored object as it is and returns a directive that
\* queues another pass.
StaleWriteIsRejected ==
    (FinishesPass /\ inflight.stale /\ (pass'.statusWrite \/ pass'.update))
        => /\ pass'.writeFailed
           /\ job' = job
           /\ Requeues(pass'.result)
           /\ queued'

\* A pass whose write goes through read the object as it is stored now: nothing
\* was written after its read.
WriteFromCurrentSnapshot ==
    (FinishesPass /\ job' # job)
        => /\ ~inflight.stale
           /\ job = inflight.snapshot

\* A second pass has been under way, none is from some point on, and the only
\* failure a pass ever meets is the conflict of its write.
InterleavingEnds ==
    /\ <>inflight.active
    /\ <>[]~inflight.active
    /\ [](Faulted => pass.conflict)

\* C31: when two passes for the same object interleave, a write made from a
\* snapshot older than the stored object is rejected and the pass returns a
\* directive that queues another pass; no pass overwrites what was written
\* after its own read; and once the interleaving has ended and the remote job
\* has completed, the stored status comes to be Completed and stays so.
C31_InterleavedPassesConverge ==
    /\ [][StaleWriteIsRejected /\ WriteFromCurrentSnapshot]_vars
    /\ (/\ InterleavingEnds
        /\ [](sm.TrainingJobStatus # UnknownRemoteStatus)
        /\ <>[](sm.TrainingJobStatus = TrainingJobStatusCompleted))
            => <>[](job.Status.TrainingJobStatus = TrainingJobStatusCompleted)

\* The stored status is past the initializing marker.
StatusPastInitializing ==
    job.Status.TrainingJobStatus \notin {"", InitializingJobStatus}

\* C32: in every reachable state in which the stored primary status is neither
\* empty nor the initializing marker, the job name recorded in the status is
\* the job name of the spec; hence the model path a pass writes for a completed
\* job, computed from the name in the status, is the one of the spec's name.
C32_StatusNameIsSpecName ==
    /\ StatusPastInitializing
            => /\ job.Spec.TrainingJobName # ""
               /\ job.Status.SageMakerTrainingJobName = job.Spec.TrainingJobName
    /\ (pass.ran /\ pass.statusWrite /\ pass.source.ModelPath # "")
            => pass.source.ModelPath
                    = pass.pre.Spec.S3OutputPath \o pass.pre.Spec.TrainingJobName
                        \o outputPath

\* The job whose name the reconciler generated has completed and its model path
\* is stored, built on that name.
C32_Witness ==
    /\ job.exists
    /\ job.Status.TrainingJobStatus = TrainingJobStatusCompleted
    /\ job.Spec.TrainingJobName \notin {"", UserJobName}
    /\ job.Status.SageMakerTrainingJobName = job.Spec.TrainingJobName
    /\ job.Status.ModelPath
            = job.Spec.S3OutputPath \o job.Spec.TrainingJobName \o outputPath

\* The object left alone by its user: nobody deletes it or edits its spec, and
\* the operator keeps running.  The dispatcher runs the passes that are queued
\* and the remote side moves on.
QuietNext ==
    \/ ReconcilePass
    \/ RemotePropagate
    \/ RemoteProgress

QuietSpec ==
    /\ Init /\ [][QuietNext]_vars
    /\ WF_vars(ReconcilePass)
    /\ WF_vars(RemotePropagate)
    /\ WF_vars(RemoteProgress)

\* The remote job exists and is in a terminal status.
RemoteTerminal == sm.exists /\ sm.TrainingJobStatus \in TerminalStatuses

\* No pass is queued, and the last pass returned no-further-action without an
\* error.
Quiescent ==
    /\ ~queued
    /\ pass.ran /\ ~pass.panic
    /\ pass.result = NoRequeue

\* C33 as stated: under fair scheduling, for an object that is never deleted,
\* whose spec is never edited and whose remote job ends up in a terminal status
\* for good, the passes come to an end, whatever the calls answer.
C33_QuiescenceWhateverTheCallsAnswer ==
    (/\ [](job.exists /\ ~job.DeletionTimestamp)
     /\ [](edits = 0)
     /\ <>[]RemoteTerminal)
        => <>[]Quiescent

\* C33: under fair scheduling, for an object that is never deleted, whose spec
\* is never edited, whose remote job ends up in a terminal status for good and
\* whose passes do not fail for ever (again and again a pass goes through with
\* no call failing), the passes come to an end: from some point on no pass is
\* queued, the last pass having returned no-further-action without an error,
\* and no step changes the object or the remote job any more.
C33_Quiescence ==
    (/\ [](job.exists /\ ~job.DeletionTimestamp)
     /\ [](edits = 0)
     /\ <>[]RemoteTerminal
     /\ []<>(pass.ran /\ ~Faulted))
        => /\ <>[]Quiescent
           /\ <>[][pass' = pass /\ job' = job /\ sm' = sm]_vars

\* The last pass has written the model path of the completed job and returned
\* no-further-action; the status write has queued no other pass.
C33_Witness ==
    /\ Quiescent
    /\ job.exists /\ ~job.DeletionTimestamp /\ edits = 0
    /\ sm.TrainingJobStatus = TrainingJobStatusCompleted
    /\ pass.statusWrite /\ ~pass.writeFailed
    /\ job.Status.TrainingJobStatus = TrainingJobStatusCompleted
    /\ job.Status.ModelPath # ""


============================================================================
